---- MODULE Spec2Model ----
(***************************************************************************)
(* Conditions Watch: the weather-to-spreadsheet pipeline.                  *)
(*                                                                         *)
(* The repository holds three revisions of the pipeline script:            *)
(*   "wide"    unnamed/part_002:135-281  one column per location           *)
(*   "long"    src/index.js:1-134        one row per location, 4 columns   *)
(*   "grouped" src/index.js:136-316      area grouping, 7 columns          *)
(* A run is one execution of main() of one revision.  Every action below   *)
(* is the code that runs between two awaits: it starts when the awaited    *)
(* promise settles and ends when the next request has been issued.         *)
(***************************************************************************)
EXTENDS Integers, Sequences, FiniteSets, TLC

VARIABLES
    variant,          \* which revision of the script this run executes
    dryRun,           \* process.argv.includes('--dry-run')
    pc,               \* the await main() is suspended at, or Done / Failed
    locations,        \* const locations = await loadLocations()
    order,            \* the locations in the order the fetch loop visits them
    idx,              \* position of the fetch loop in order (1-based)
    fw,               \* locals of the running fetchWeather call
    weatherData,      \* const weatherData = []
    now,              \* const now = new Date() of appendToSheet
    headerAsRead,     \* the header row as values.get returned it
    existingHeaders,  \* local existingHeaders of appendToSheet
    rows,             \* the rows handed to values.append
    updates,          \* payloads of the values.update calls issued, in order
    sheetHeader,      \* row 1 of the remote sheet
    sheetRows,        \* the data rows of the remote sheet
    trace,            \* requests issued and their settlements, in order
    exitCode,         \* process exit status; -1 while running
    runs              \* number of runs started against the sheet

vars == <<variant, dryRun, pc, locations, order, idx, fw, weatherData, now,
          headerAsRead, existingHeaders, rows, updates, sheetHeader, sheetRows, trace,
          exitCode, runs>>

----------------------------------------------------------------------------
(* Bounds of the model *)

MaxLocs == 3          \* longest location list in config/locations.json
MaxHeader == 1        \* longest arbitrary pre-existing header row
MaxSeries == 7        \* longest observation series of the pure-function check
MaxRuns == 2          \* runs against the same sheet
MaxRunLocs == 1       \* longest location list in the multi-run specification

Variants == {"wide", "long", "grouped"}

Names == {"Oslo", "Bergen", "Date"}

\* A location without an area label (location.area is undefined, or '').
NoArea == ""

Areas == {NoArea, "Other", "North", "7", "constructor"}

Location == [name : Names, area : Areas]

SeqsUpTo(S, n) == UNION {[1..k -> S] : k \in 0..n}

Range(s) == {s[i] : i \in 1..Len(s)}

\* Location.name is the identity of a location: no two entries share it.
UniqueNames(c) == \A i, j \in 1..Len(c) : c[i].name = c[j].name => i = j

Configs == {c \in SeqsUpTo(Location, MaxLocs) : UniqueNames(c)}

RunConfigs == {c \in SeqsUpTo([name : {"Oslo", "Bergen"}, area : {NoArea, "North"}], MaxRunLocs) :
                 UniqueNames(c)}

----------------------------------------------------------------------------
(* The weather provider: what api.met.no holds for each location.  An entry *)
(* of a time series is data.instant.details.air_temperature and             *)
(* data.next_1_hours?.details?.precipitation_amount (Missing when absent).  *)

Missing == -1

Entry(t, p) == [air_temperature |-> t, precipitation_amount |-> p]

Nowcast(name) ==
    CASE name = "Oslo"   -> <<Entry(5, 1), Entry(5, Missing), Entry(4, 2)>>
      [] name = "Bergen" -> <<Entry(0, 1), Entry(0, 1), Entry(0, 1), Entry(0, 1),
                              Entry(1, 1), Entry(1, 1), Entry(1, 4)>>
      [] OTHER           -> <<Entry(-3, Missing)>>

\* data.instant.details.cloud_area_fraction of the first forecast entry.
CloudAreaFraction(name) ==
    CASE name = "Oslo"   -> 50
      [] name = "Bergen" -> 0
      [] OTHER           -> Missing

----------------------------------------------------------------------------
(* fetchWeather: the pure parts *)

WindowHours == 6

Min(a, b) == IF a < b THEN a ELSE b

RECURSIVE SumPrecipitation(_, _, _, _)
\* for (let i = 0; i < Math.min(6, nowcastTimeseries.length); i++): the loop
\* from 1-based position i, upper limit n, running sum acc.
SumPrecipitation(ts, i, n, acc) ==
    IF i > n THEN acc
    ELSE SumPrecipitation(ts, i + 1, n,
             IF ts[i].precipitation_amount # Missing
             THEN acc + ts[i].precipitation_amount
             ELSE acc)

\* A precipitation loop without the Math.min(6, ...) limit.
WholeSeriesSum(ts) == SumPrecipitation(ts, 1, Len(ts), 0)

PrecipitationSum(ts) == SumPrecipitation(ts, 1, Min(WindowHours, Len(ts)), 0)

\* let cloudCover = null
Null == -1

\* cloudCover = forecastCurrent.data.instant.details.cloud_area_fraction || 0
CloudCoverOf(fraction) == IF fraction = Missing \/ fraction = 0 THEN 0 ELSE fraction

\* What a weather request can come back with: a 2xx response carrying the
\* provider's data, a non-2xx response, or no usable response at all (the
\* request promise rejects, or the body has no timeseries[0]).
Outcomes == {"ok", "status", "throws"}

\* A fetchWeather without the response.ok check.
ThrowsOnlyWhenRejected(out) == out = "throws"

\* if (!response.ok) throw new Error(...), and the errors fetch and the
\* property reads raise by themselves.
PrimaryThrows(out) == out # "ok"

\* Only an exception leaves fetchWeather at the second request; a non-2xx
\* response skips the if (forecastResponse.ok) block.
SecondaryThrows(out) == out = "throws"

PrimaryApi(v) == IF v = "wide" THEN "locationforecast" ELSE "nowcast"

----------------------------------------------------------------------------
(* main: grouping and the fetch order *)

\* const area = location.area || 'Other'
AreaKey(l) == IF l.area = NoArea THEN "Other" ELSE l.area

\* Property names an empty object literal inherits: acc[area] is then a
\* truthy non-array and acc[area].push(location) raises a TypeError.
InheritedKeys == {"constructor"}

\* Keys that are canonical array indices: Object.entries lists them first,
\* in ascending numeric order, whatever their insertion order.
IndexKeys == {"7"}

IndexValue(k) == CASE k = "7" -> 7 [] OTHER -> 0

GroupingThrows(locs) == \E i \in 1..Len(locs) : AreaKey(locs[i]) \in InheritedKeys

RECURSIVE InsertionKeys(_, _)
\* The keys of locationsByArea in the order the reduce created them.
InsertionKeys(locs, seen) ==
    IF locs = <<>> THEN <<>>
    ELSE LET k == AreaKey(Head(locs))
         IN  IF k \in seen THEN InsertionKeys(Tail(locs), seen)
             ELSE <<k>> \o InsertionKeys(Tail(locs), seen \cup {k})

RECURSIVE AscendingIndexKeys(_)
AscendingIndexKeys(S) ==
    IF S = {} THEN <<>>
    ELSE LET m == CHOOSE k \in S : \A j \in S : IndexValue(k) <= IndexValue(j)
         IN  <<m>> \o AscendingIndexKeys(S \ {m})

\* The key order of Object.entries(locationsByArea).
EntriesKeys(locs) ==
    LET ins == InsertionKeys(locs, {})
    IN  AscendingIndexKeys(Range(ins) \cap IndexKeys)
            \o SelectSeq(ins, LAMBDA k : k \notin IndexKeys)

RECURSIVE AreaByArea(_, _)
\* for (const [area, areaLocations] of entries) for (const location of areaLocations)
AreaByArea(keys, locs) ==
    IF keys = <<>> THEN <<>>
    ELSE SelectSeq(locs, LAMBDA l : AreaKey(l) = Head(keys))
             \o AreaByArea(Tail(keys), locs)

GroupedOrder(locs) == AreaByArea(EntriesKeys(locs), locs)

\* A fetch loop that walks the list from its end.
BackwardOrder(v, locs) == [i \in 1..Len(locs) |-> locs[Len(locs) + 1 - i]]

\* The order in which the fetch loop of a revision visits the locations.
FetchOrder(v, locs) == IF v = "grouped" THEN GroupedOrder(locs) ELSE locs

\* The object pushed onto weatherData (latitude and longitude are those of
\* the location the name stands for).
Reading(v, loc, w) ==
    IF v = "grouped"
    THEN [area |-> AreaKey(loc), location |-> loc.name,
          temperature |-> w.temperature, precipitation |-> w.precipitation,
          cloudCover |-> w.cloudCover]
    ELSE [location |-> loc.name, temperature |-> w.temperature]

\* A main without the dry-run branch.
NeverSkipsWrite(v, d) == FALSE

\* if (dryRun) { ... return; }   (the wide revision has no such branch)
SkipsWrite(v, d) == v # "wide" /\ d

----------------------------------------------------------------------------
(* appendToSheet: the pure parts *)

\* The header each revision writes into an empty sheet.
DefaultHeader(v) ==
    CASE v = "wide"    -> <<"Date", "Hour">>
      [] v = "long"    -> <<"Date", "Hour", "Location", "Temperature">>
      [] v = "grouped" -> <<"Date", "Hour", "Area", "Location", "Temperature",
                            "Precipitation", "CloudCover">>

\* Columns of the headerRange each revision reads: A1:ZZ1, A1:D1, A1:G1.
HeaderRangeWidth(v) ==
    CASE v = "wide" -> 702 [] v = "long" -> 4 [] v = "grouped" -> 7

\* headerResponse.data.values?.[0] || []
ReadHeader(v, header) == SubSeq(header, 1, Min(Len(header), HeaderRangeWidth(v)))

\* values.update at 'Sheet1!A1': the cells the payload covers are replaced,
\* the cells right of it are kept.
UpdateAtA1(header, values) == values \o SubSeq(header, Len(values) + 1, Len(header))

\* currentLocationNames = existingHeaders.slice(2)
CurrentLocationNames(existing) == Range(SubSeq(existing, 3, Len(existing)))

\* A column check without the filter: every configured name counts as new.
EveryLocationName(existing, locs) == [i \in 1..Len(locs) |-> locs[i].name]

\* locations.map(l => l.name).filter(name => !currentLocationNames.includes(name))
NewLocationNames(existing, locs) ==
    SelectSeq([i \in 1..Len(locs) |-> locs[i].name],
              LAMBDA n : n \notin CurrentLocationNames(existing))

\* The clock reading new Date() gives.
Instants == {[date |-> "2025-12-03", hour |-> 6]}

\* now.getUTCHours().toString().padStart(2, '0')
Pad2(h) == IF h < 10 THEN "0" \o ToString(h) ELSE ToString(h)

\* A cell of a data row: the value v, the reading field f it was taken from
\* and, in the wide layout, the location `of` whose temperature it is.
Cell(f, of, v) == [f |-> f, of |-> of, v |-> v]

\* weatherData.find(w => w.location === locationName)
Find(wd, name) ==
    LET hits == {i \in 1..Len(wd) : wd[i].location = name}
    IN  IF hits = {} THEN 0 ELSE CHOOSE i \in hits : \A j \in hits : i <= j

\* row.push(weather ? weather.temperature : '') for header column i
WideCell(existing, wd, i) ==
    LET k == Find(wd, existing[i])
    IN  IF k = 0 THEN Cell("Empty", "", "")
        ELSE Cell("Temperature", wd[k].location, wd[k].temperature)

\* The single row of the wide revision: date, hour, then one cell for each
\* header column from the third on.
WideRow(existing, wd, t) ==
    <<Cell("Date", "", t.date), Cell("Hour", "", Pad2(t.hour))>>
        \o [j \in 1..(IF Len(existing) > 2 THEN Len(existing) - 2 ELSE 0) |->
               WideCell(existing, wd, j + 2)]

\* A row builder that puts the temperature before the location.
TemperatureFirstRow(v, w, t) ==
    IF v = "grouped"
    THEN <<Cell("Date", "", t.date), Cell("Hour", "", Pad2(t.hour)),
           Cell("Area", "", w.area), Cell("Temperature", "", w.temperature),
           Cell("Location", "", w.location),
           Cell("Precipitation", "", w.precipitation),
           Cell("CloudCover", "", w.cloudCover)>>
    ELSE <<Cell("Date", "", t.date), Cell("Hour", "", Pad2(t.hour)),
           Cell("Temperature", "", w.temperature),
           Cell("Location", "", w.location)>>

\* weatherData.map(weather => [date, hour, ...])
LongRow(v, w, t) ==
    IF v = "grouped"
    THEN <<Cell("Date", "", t.date), Cell("Hour", "", Pad2(t.hour)),
           Cell("Area", "", w.area), Cell("Location", "", w.location),
           Cell("Temperature", "", w.temperature),
           Cell("Precipitation", "", w.precipitation),
           Cell("CloudCover", "", w.cloudCover)>>
    ELSE <<Cell("Date", "", t.date), Cell("Hour", "", Pad2(t.hour)),
           Cell("Location", "", w.location),
           Cell("Temperature", "", w.temperature)>>

\* The payload of values.append.
BuildRows(v, existing, wd, t) ==
    IF v = "wide" THEN <<WideRow(existing, wd, t)>>
    ELSE [i \in 1..Len(wd) |-> LongRow(v, wd[i], t)]

\* Header rows the sheet may hold before a run reads it.
HeaderAlphabet == {"Hour", "Oslo"}

ExistingHeaders ==
    SeqsUpTo(HeaderAlphabet, MaxHeader)
        \cup {DefaultHeader(v) : v \in Variants}
        \cup {<<"Date", "Hour", "Oslo">>, <<"Date", "Hour", "Bergen", "Oslo">>}

----------------------------------------------------------------------------
(* The run: trace events and the continuations shared by the actions *)

Request(api, loc) == [ev |-> "request", api |-> api, loc |-> loc]

Settled(out, api, loc) == [ev |-> out, api |-> api, loc |-> loc]

NoFetch == [nowcastTimeseries |-> <<>>, temperature |-> 0, precipitationSum |-> 0]

NoInstant == [date |-> "", hour |-> 0]

Terminal == {"Done", "Failed"}

\* A catch block that logs the error and lets the process end normally.
ExitUnset == 1 - 1

\* process.exit(1) of the catch block.
ExitFailure == 1

\* GOOGLE_CREDENTIALS as JSON.parse finds it.
Credentials == {"valid", "invalid"}

\* catch (error) { console.error(...); process.exit(1); }
Fail(tr) ==
    /\ pc' = "Failed"
    /\ exitCode' = ExitFailure
    /\ trace' = tr
    /\ UNCHANGED <<now, existingHeaders, rows, updates>>

\* main returns: the process ends with status 0.
Finish(tr) ==
    /\ pc' = "Done"
    /\ exitCode' = 0
    /\ trace' = tr
    /\ UNCHANGED <<now, existingHeaders, rows, updates>>

\* const weather = await fetchWeather(...) for position k: the first request.
IssueFetch(k, ord, tr) ==
    /\ pc' = "AwaitPrimary"
    /\ trace' = Append(tr, Request(PrimaryApi(variant), ord[k].name))
    /\ UNCHANGED <<exitCode, now, existingHeaders, rows, updates>>

\* appendToSheet up to its first await: the clock is read, the header asked for.
IssueHeaderGet(tr, t) ==
    /\ pc' = "AwaitHeaderGet"
    /\ now' = t
    /\ trace' = Append(tr, Request("values.get", ""))
    /\ UNCHANGED <<exitCode, existingHeaders, rows, updates>>

\* A loop that leaves one position early.
ForLoopOneShort(k, ord, tr, cred, t) ==
    IF k < Len(ord) THEN IssueFetch(k, ord, tr)
    ELSE IF SkipsWrite(variant, dryRun) THEN Finish(tr)
    ELSE IF cred # "valid" THEN Fail(tr)
    ELSE IssueHeaderGet(tr, t)

\* The for loop at position k, and what follows it when the list is exhausted.
ForLoop(k, ord, tr, cred, t) ==
    IF k <= Len(ord) THEN IssueFetch(k, ord, tr)
    ELSE IF SkipsWrite(variant, dryRun) THEN Finish(tr)
    ELSE IF cred # "valid" THEN Fail(tr)
    ELSE IssueHeaderGet(tr, t)

\* Build the rows and issue values.append.
IssueAppend(existing, tr) ==
    /\ pc' = "AwaitAppend"
    /\ existingHeaders' = existing
    /\ rows' = BuildRows(variant, existing, weatherData, now)
    /\ trace' = Append(tr, Request("values.append", ""))
    /\ UNCHANGED <<exitCode, now, updates>>

\* values.update of the header row with the given payload; existing is the
\* value the local existingHeaders has at the call.
IssueUpdate(payload, existing, atPc, tr) ==
    /\ pc' = atPc
    /\ existingHeaders' = existing
    /\ updates' = Append(updates, payload)
    /\ trace' = Append(tr, Request("values.update", ""))
    /\ UNCHANGED <<exitCode, now, rows>>

\* appendToSheet once a header row exists: the wide revision adds the columns
\* of unseen locations, then every revision builds its rows and appends.
WithHeader(existing, tr) ==
    IF variant = "wide" /\ NewLocationNames(existing, locations) # <<>>
    THEN IssueUpdate(existing \o NewLocationNames(existing, locations),
                     existing \o NewLocationNames(existing, locations),
                     "AwaitColumnsUpdate", tr)
    ELSE IssueAppend(existing, tr)

----------------------------------------------------------------------------
(* The actions *)

\* await loadLocations() settles; main runs on to its next await.
LoadLocations(cfgs) ==
    /\ pc = "Loading"
    /\ \/ /\ Fail(Append(trace, Settled("throws", "loadLocations", "")))
          /\ UNCHANGED <<locations, order, idx>>
       \/ \E c \in cfgs, cred \in Credentials, t \in Instants :
            /\ locations' = c
            /\ IF variant = "grouped" /\ GroupingThrows(c)
               THEN /\ Fail(Append(trace, Settled("ok", "loadLocations", "")))
                    /\ UNCHANGED <<order, idx>>
               ELSE /\ order' = FetchOrder(variant, c)
                    /\ idx' = 1
                    /\ ForLoop(1, order', Append(trace, Settled("ok", "loadLocations", "")),
                               cred, t)
    /\ UNCHANGED <<variant, dryRun, fw, weatherData, sheetHeader, sheetRows, runs, headerAsRead>>

\* The first weather request of fetchWeather settles.
PrimaryResponds ==
    /\ pc = "AwaitPrimary"
    /\ \E out \in Outcomes :
         LET loc == order[idx]
             tr  == Append(trace, Settled(out, PrimaryApi(variant), loc.name))
             ts  == Nowcast(loc.name)
         IN  IF PrimaryThrows(out)
             THEN /\ Fail(tr)
                  /\ UNCHANGED <<fw, weatherData>>
             ELSE IF variant = "grouped"
             THEN /\ fw' = [nowcastTimeseries |-> ts,
                            temperature |-> ts[1].air_temperature,
                            precipitationSum |-> PrecipitationSum(ts)]
                  /\ pc' = "AwaitSecondary"
                  /\ trace' = Append(tr, Request("locationforecast", loc.name))
                  /\ UNCHANGED <<weatherData, exitCode, now, existingHeaders, rows, updates>>
             ELSE /\ weatherData' = Append(weatherData,
                         Reading(variant, loc, [temperature |-> ts[1].air_temperature]))
                  /\ pc' = "Pausing"
                  /\ trace' = Append(tr, Request("timer", loc.name))
                  /\ UNCHANGED <<fw, exitCode, now, existingHeaders, rows, updates>>
    /\ UNCHANGED <<variant, dryRun, locations, order, idx, sheetHeader, sheetRows, runs, headerAsRead>>

\* The cloud-cover request of fetchWeather settles (grouped revision).
SecondaryResponds ==
    /\ pc = "AwaitSecondary"
    /\ \E out \in Outcomes :
         LET loc == order[idx]
             tr  == Append(trace, Settled(out, "locationforecast", loc.name))
         IN  IF SecondaryThrows(out)
             THEN /\ Fail(tr)
                  /\ UNCHANGED <<fw, weatherData>>
             ELSE /\ weatherData' = Append(weatherData,
                         Reading(variant, loc,
                             [temperature |-> fw.temperature,
                              precipitation |-> fw.precipitationSum,
                              cloudCover |-> IF out = "ok"
                                             THEN CloudCoverOf(CloudAreaFraction(loc.name))
                                             ELSE Null]))
                  /\ fw' = NoFetch
                  /\ pc' = "Pausing"
                  /\ trace' = Append(tr, Request("timer", loc.name))
                  /\ UNCHANGED <<exitCode, now, existingHeaders, rows, updates>>
    /\ UNCHANGED <<variant, dryRun, locations, order, idx, sheetHeader, sheetRows, runs, headerAsRead>>

\* The one-second timer fires; the loop moves on, or main goes on to write.
PauseElapsed ==
    /\ pc = "Pausing"
    /\ idx' = idx + 1
    /\ \E cred \in Credentials, t \in Instants :
         ForLoop(idx + 1, order, Append(trace, Settled("ok", "timer", order[idx].name)),
                 cred, t)
    /\ UNCHANGED <<variant, dryRun, locations, order, fw, weatherData,
                   sheetHeader, sheetRows, runs, headerAsRead>>

\* values.get of the header range settles.
HeaderGetResponds ==
    /\ pc = "AwaitHeaderGet"
    /\ \/ /\ Fail(Append(trace, Settled("throws", "values.get", "")))
          /\ UNCHANGED headerAsRead
       \/ LET tr == Append(trace, Settled("ok", "values.get", ""))
              existing == ReadHeader(variant, sheetHeader)
          IN  /\ headerAsRead' = existing
              /\ IF Len(existing) = 0
                 THEN IssueUpdate(DefaultHeader(variant),
                                  IF variant = "wide" THEN DefaultHeader(variant)
                                  ELSE existing,
                                  "AwaitHeaderUpdate", tr)
                 ELSE WithHeader(existing, tr)
    /\ UNCHANGED <<variant, dryRun, locations, order, idx, fw, weatherData,
                   sheetHeader, sheetRows, runs>>

\* The values.update that creates the header of an empty sheet settles.
HeaderUpdateResponds ==
    /\ pc = "AwaitHeaderUpdate"
    /\ \/ /\ Fail(Append(trace, Settled("throws", "values.update", "")))
          /\ UNCHANGED sheetHeader
       \/ /\ sheetHeader' = UpdateAtA1(sheetHeader, updates[Len(updates)])
          /\ WithHeader(existingHeaders, Append(trace, Settled("ok", "values.update", "")))
    /\ UNCHANGED <<variant, dryRun, locations, order, idx, fw, weatherData,
                   sheetRows, runs, headerAsRead>>

\* The values.update that adds the new location columns settles (wide revision).
ColumnsUpdateResponds ==
    /\ pc = "AwaitColumnsUpdate"
    /\ \/ /\ Fail(Append(trace, Settled("throws", "values.update", "")))
          /\ UNCHANGED sheetHeader
       \/ /\ sheetHeader' = UpdateAtA1(sheetHeader, updates[Len(updates)])
          /\ IssueAppend(existingHeaders, Append(trace, Settled("ok", "values.update", "")))
    /\ UNCHANGED <<variant, dryRun, locations, order, idx, fw, weatherData,
                   sheetRows, runs, headerAsRead>>

\* An append whose failure undoes the header update of the same run.
AppendRollsBack ==
    /\ pc = "AwaitAppend"
    /\ \/ /\ Fail(Append(trace, Settled("throws", "values.append", "")))
          /\ sheetHeader' = headerAsRead
          /\ UNCHANGED sheetRows
       \/ /\ sheetRows' = sheetRows \o rows
          /\ Finish(Append(trace, Settled("ok", "values.append", "")))
          /\ UNCHANGED sheetHeader
    /\ UNCHANGED <<variant, dryRun, locations, order, idx, fw, weatherData,
                   runs, headerAsRead>>

\* values.append settles; appendToSheet and main return.
AppendResponds ==
    /\ pc = "AwaitAppend"
    /\ \/ /\ Fail(Append(trace, Settled("throws", "values.append", "")))
          /\ UNCHANGED sheetRows
       \/ /\ sheetRows' = sheetRows \o rows
          /\ Finish(Append(trace, Settled("ok", "values.append", "")))
    /\ UNCHANGED <<variant, dryRun, locations, order, idx, fw, weatherData,
                   sheetHeader, runs, headerAsRead>>

\* Someone else filled row 1 of the sheet before this run reads it.  What the
\* sheet held earlier in the run is never observed, so the change is placed
\* right before the read.
OtherWriter ==
    /\ pc = "AwaitHeaderGet"
    /\ sheetHeader = <<>>
    /\ \E h \in ExistingHeaders \ {<<>>} : sheetHeader' = h
    /\ UNCHANGED <<variant, dryRun, pc, locations, order, idx, fw, weatherData, now,
                   headerAsRead, existingHeaders, rows, updates, sheetRows, trace,
                   exitCode, runs>>

\* The scheduler starts the next run once the previous one has ended.
StartRun ==
    /\ pc \in Terminal
    /\ runs < MaxRuns
    /\ runs' = runs + 1
    /\ variant' \in Variants
    /\ dryRun' \in (IF variant' = "wide" THEN {FALSE} ELSE BOOLEAN)
    /\ pc' = "Loading"
    /\ locations' = <<>>
    /\ order' = <<>>
    /\ idx' = 0
    /\ fw' = NoFetch
    /\ weatherData' = <<>>
    /\ now' = NoInstant
    /\ headerAsRead' = <<>>
    /\ existingHeaders' = <<>>
    /\ rows' = <<>>
    /\ updates' = <<>>
    /\ trace' = <<Request("loadLocations", "")>>
    /\ exitCode' = -1
    /\ UNCHANGED <<sheetHeader, sheetRows>>

----------------------------------------------------------------------------
(* Specifications *)

\* main() has been called and is suspended at await loadLocations().  The
\* wide revision never looks at process.argv: the flag is no input of it.
Init ==
    /\ variant \in Variants
    /\ dryRun \in (IF variant = "wide" THEN {FALSE} ELSE BOOLEAN)
    /\ pc = "Loading"
    /\ locations = <<>>
    /\ order = <<>>
    /\ idx = 0
    /\ fw = NoFetch
    /\ weatherData = <<>>
    /\ now = NoInstant
    /\ headerAsRead = <<>>
    /\ existingHeaders = <<>>
    /\ rows = <<>>
    /\ updates = <<>>
    /\ sheetHeader = <<>>
    /\ sheetRows = <<>>
    /\ trace = <<Request("loadLocations", "")>>
    /\ exitCode = -1
    /\ runs = 1

\* One run against a sheet whose header row is arbitrary.
Next ==
    \/ LoadLocations(Configs)
    \/ PrimaryResponds
    \/ SecondaryResponds
    \/ PauseElapsed
    \/ OtherWriter
    \/ HeaderGetResponds
    \/ HeaderUpdateResponds
    \/ ColumnsUpdateResponds
    \/ AppendResponds

Spec == Init /\ [][Next]_vars

\* Successive runs, of any revision, against a sheet that starts empty and
\* that only these runs write.
NextRuns ==
    \/ LoadLocations(RunConfigs)
    \/ PrimaryResponds
    \/ SecondaryResponds
    \/ PauseElapsed
    \/ HeaderGetResponds
    \/ HeaderUpdateResponds
    \/ ColumnsUpdateResponds
    \/ AppendResponds
    \/ StartRun

SpecRuns == Init /\ [][NextRuns]_vars

\* The precipitation window of fetchWeather on its own: the nowcast body has
\* arrived with an arbitrary observation series of 1 .. MaxSeries entries.
SeriesEntries == {Entry(5, Missing), Entry(5, 1), Entry(5, 2)}

AnySeries == SeqsUpTo(SeriesEntries, MaxSeries) \ {<<>>}

InitPrecip ==
    /\ variant = "grouped"
    /\ dryRun = FALSE
    /\ pc = "Summing"
    /\ locations = <<>>
    /\ order = <<>>
    /\ idx = 0
    /\ fw \in {[nowcastTimeseries |-> ts, temperature |-> 0, precipitationSum |-> 0] :
                 ts \in AnySeries}
    /\ weatherData = <<>>
    /\ now = NoInstant
    /\ headerAsRead = <<>>
    /\ existingHeaders = <<>>
    /\ rows = <<>>
    /\ updates = <<>>
    /\ sheetHeader = <<>>
    /\ sheetRows = <<>>
    /\ trace = <<>>
    /\ exitCode = -1
    /\ runs = 1

\* const current = nowcastTimeseries[0]; ...; the precipitation loop.
SumWindow ==
    /\ pc = "Summing"
    /\ fw' = [fw EXCEPT !.temperature = fw.nowcastTimeseries[1].air_temperature,
                        !.precipitationSum = PrecipitationSum(fw.nowcastTimeseries)]
    /\ pc' = "Summed"
    /\ UNCHANGED <<variant, dryRun, locations, order, idx, weatherData, now, headerAsRead,
                   existingHeaders, rows, updates, sheetHeader, sheetRows, trace,
                   exitCode, runs>>

NextPrecip == SumWindow

SpecPrecip == InitPrecip /\ [][NextPrecip]_vars

----------------------------------------------------------------------------
(* Vocabulary of the properties *)

IsRequest(e, apis) == e.ev = "request" /\ e.api \in apis

WeatherApis == {"nowcast", "locationforecast"}

SheetApis == {"values.get", "values.update", "values.append"}

\* The locations the first weather request of fetchWeather was issued for.
FetchLog ==
    LET reqs == SelectSeq(trace, LAMBDA e : IsRequest(e, {PrimaryApi(variant)}))
    IN  [i \in 1..Len(reqs) |-> reqs[i].loc]

NamesOf(locs) == [i \in 1..Len(locs) |-> locs[i].name]

IsPrefix(s, t) == Len(s) <= Len(t) /\ \A i \in 1..Len(s) : s[i] = t[i]

SheetCalls == SelectSeq(trace, LAMBDA e : IsRequest(e, SheetApis))

\* The fetch loop has run to its end: every fetchWeather call returned.
LoopDone == idx = Len(order) + 1

\* Reading r holds what the provider reports for location l.
ReadingOf(r, l) ==
    /\ r.location = l.name
    /\ r.temperature = Nowcast(l.name)[1].air_temperature

\* Position of the location named n in the input list.
InputIndex(n) == CHOOSE i \in 1..Len(locations) : locations[i].name = n

----------------------------------------------------------------------------
(* C1 *)

\* C1 as stated: after a run in which every fetch succeeded on a non-empty
\* list, there is one reading per location and the i-th reading belongs to
\* the i-th location of the input list, whatever the area labels.
C1_InputOrder ==
    (LoopDone /\ locations # <<>>) =>
        /\ Len(weatherData) = Len(locations)
        /\ \A i \in 1..Len(locations) : ReadingOf(weatherData[i], locations[i])

\* C1 amended: after a run in which every fetch succeeded on a non-empty
\* list there is exactly one reading per location.  In the wide and long
\* revisions the i-th reading belongs to the i-th location.  In the grouped
\* revision the readings of one area are contiguous and keep their input
\* order, so the i-th reading belongs to the i-th location exactly when
\* the input list is already in that grouped order.
C1_OnePerLocation ==
    (LoopDone /\ locations # <<>>) =>
        /\ Len(weatherData) = Len(locations)
        /\ \A i \in 1..Len(locations) :
             Cardinality({j \in 1..Len(weatherData) :
                             ReadingOf(weatherData[j], locations[i])}) = 1
        /\ variant # "grouped" =>
             \A i \in 1..Len(locations) : ReadingOf(weatherData[i], locations[i])
        /\ variant = "grouped" =>
             /\ \A i, j \in 1..Len(weatherData) :
                  (i < j /\ weatherData[i].area = weatherData[j].area) =>
                      /\ InputIndex(weatherData[i].location)
                             < InputIndex(weatherData[j].location)
                      /\ \A k \in i..j : weatherData[k].area = weatherData[i].area
             /\ \A i \in 1..Len(weatherData) :
                  weatherData[i].area = AreaKey(locations[InputIndex(weatherData[i].location)])
             /\ (NamesOf(locations) = NamesOf(GroupedOrder(locations))) <=>
                  (\A i \in 1..Len(locations) : ReadingOf(weatherData[i], locations[i]))

\* Three locations whose area labels interleave, all fetched: the third
\* location's reading is the second one collected.
C1_Witness ==
    /\ LoopDone
    /\ variant = "grouped"
    /\ Len(locations) = 3
    /\ locations[1].area = locations[3].area
    /\ locations[2].area # locations[1].area
    /\ Len(weatherData) = 3
    /\ weatherData[2].location = locations[3].name

----------------------------------------------------------------------------
(* C2 *)

PrimaryStatusAt(k) ==
    /\ trace[k].ev = "status"
    /\ trace[k].api = PrimaryApi(variant)

\* C2: when the primary endpoint answers a non-success status for location
\* L, the run is Failed at once; readings exist exactly for the locations
\* fetched before L, no request was issued for a location that comes after
\* L, and no spreadsheet call was issued.  Before and after are positions
\* in the order the run fetches.
C2_AbortOnStatus ==
    \A k \in 1..Len(trace) :
        PrimaryStatusAt(k) =>
            /\ k = Len(trace)
            /\ pc = "Failed" /\ exitCode # 0
            /\ idx \in 1..Len(order) /\ order[idx].name = trace[k].loc
            /\ Len(weatherData) = idx - 1
            /\ \A j \in 1..(idx - 1) : ReadingOf(weatherData[j], order[j])
            /\ \A j \in 1..Len(trace) :
                 IsRequest(trace[j], WeatherApis) =>
                     \E i \in 1..idx : order[i].name = trace[j].loc
            /\ SheetCalls = <<>>
            /\ sheetHeader = <<>> /\ sheetRows = <<>>

\* The second of three locations gets a non-success status.
C2_Witness ==
    /\ pc = "Failed"
    /\ PrimaryStatusAt(Len(trace))
    /\ Len(order) = 3
    /\ idx = 2
    /\ Len(weatherData) = 1

----------------------------------------------------------------------------
(* C3 *)

\* C3: the fetch loop issues its requests in the same order whether or not
\* the dry-run flag is set; a dry run never issues a spreadsheet call and
\* leaves the sheet alone; and a dry run whose fetches all succeeded is
\* Done with exit status 0, holding a reading for every location.
C3_DryRun ==
    /\ IsPrefix(FetchLog, NamesOf(FetchOrder(variant, locations)))
    /\ dryRun =>
         /\ SheetCalls = <<>>
         /\ sheetHeader = <<>> /\ sheetRows = <<>> /\ updates = <<>> /\ rows = <<>>
         /\ LoopDone =>
              /\ pc = "Done" /\ exitCode = 0
              /\ FetchLog = NamesOf(FetchOrder(variant, locations))
              /\ Len(weatherData) = Len(locations)

\* A dry run over three locations that ended Done.
C3_Witness ==
    /\ dryRun
    /\ pc = "Done"
    /\ Len(locations) = 3
    /\ Len(weatherData) = 3

----------------------------------------------------------------------------
(* C4 *)

\* Cell c holds value v of field f (of location `of` in the wide layout).
CellIs(c, f, of, v) == c.f = f /\ c.of = of /\ c.v = v

Settles(out, api) == \E k \in 1..Len(trace) : trace[k].ev = out /\ trace[k].api = api

IndexOfRequest(api) ==
    CHOOSE k \in 1..Len(trace) :
        /\ IsRequest(trace[k], {api})
        /\ \A j \in 1..(k - 1) : ~IsRequest(trace[j], {api})

AppendIssued == \E k \in 1..Len(trace) : IsRequest(trace[k], {"values.append"})

\* values.get answered with an empty header row and values.append was issued.
WroteIntoEmptySheet == Settles("ok", "values.get") /\ headerAsRead = <<>> /\ AppendIssued

\* The header column a cell belongs under: its field, or in the wide layout
\* the name of the location whose temperature it is.
ColumnOf(c) == IF c.f = "Temperature" /\ c.of # "" THEN c.of ELSE c.f

\* Every value of the row lies under the header column that names it; an
\* empty cell fits any column.
Aligned(row, header) ==
    /\ Len(row) <= Len(header)
    /\ \A i \in 1..Len(row) : row[i].f # "Empty" => ColumnOf(row[i]) = header[i]

\* The default header was sent by values.update, that update succeeded, and
\* all of it before values.append was issued.
HeaderFirst ==
    /\ updates # <<>> /\ updates[1] = DefaultHeader(variant)
    /\ \E k \in 1..Len(trace) :
         /\ k = IndexOfRequest("values.update")
         /\ k + 1 < IndexOfRequest("values.append")
         /\ trace[k + 1] = Settled("ok", "values.update", "")

\* Row i carries the date and hour of the write and the fields of reading i.
RowOfReading(row, w) ==
    /\ CellIs(row[1], "Date", "", now.date)
    /\ CellIs(row[2], "Hour", "", Pad2(now.hour))
    /\ \E k \in 1..Len(row) : CellIs(row[k], "Location", "", w.location)
    /\ \E k \in 1..Len(row) : CellIs(row[k], "Temperature", "", w.temperature)
    /\ variant = "grouped" =>
         /\ \E k \in 1..Len(row) : CellIs(row[k], "Area", "", w.area)
         /\ \E k \in 1..Len(row) : CellIs(row[k], "Precipitation", "", w.precipitation)
         /\ \E k \in 1..Len(row) : CellIs(row[k], "CloudCover", "", w.cloudCover)

\* C4 as stated: into an empty sheet every revision first writes its default
\* header, then appends exactly one row per reading, each aligned with the
\* header columns.
C4_OneRowPerReading ==
    (WroteIntoEmptySheet /\ weatherData # <<>>) =>
        /\ HeaderFirst
        /\ Len(rows) = Len(weatherData)
        /\ \A i \in 1..Len(rows) : Aligned(rows[i], sheetHeader)

\* C4 amended: into an empty sheet every revision first writes its default
\* header and only then appends.  The long and grouped revisions append
\* exactly one row per reading, in reading order, each with its values at
\* the positions of the header columns Date, Hour, [Area], Location,
\* Temperature, [Precipitation], [CloudCover].  The wide revision appends
\* exactly one row for the whole run: date, hour and, under each location
\* column of the header, that location's temperature.
C4_HeaderThenRows ==
    WroteIntoEmptySheet =>
        /\ HeaderFirst
        /\ \A i \in 1..Len(rows) : Aligned(rows[i], sheetHeader)
        /\ variant # "wide" =>
             /\ sheetHeader = DefaultHeader(variant)
             /\ Len(rows) = Len(weatherData)
             /\ \A i \in 1..Len(rows) :
                  /\ Len(rows[i]) = Len(sheetHeader)
                  /\ RowOfReading(rows[i], weatherData[i])
        /\ variant = "wide" =>
             /\ sheetHeader = DefaultHeader(variant) \o NamesOf(locations)
             /\ Len(rows) = 1
             /\ Len(rows[1]) = Len(sheetHeader)
             /\ \A i \in 1..Len(weatherData) :
                  CellIs(rows[1][i + 2], "Temperature", weatherData[i].location,
                                        weatherData[i].temperature)
        /\ pc = "Done" => sheetRows = rows

\* The grouped revision wrote two readings into an empty sheet.
C4_Witness ==
    /\ WroteIntoEmptySheet
    /\ pc = "Done"
    /\ variant = "grouped"
    /\ Len(sheetRows) = 2

----------------------------------------------------------------------------
(* C5 *)

\* The header the wide revision starts from: the row it read, or the
\* default Date, Hour columns it first writes into an empty sheet.
BaseHeader == IF headerAsRead = <<>> THEN DefaultHeader("wide") ELSE headerAsRead

\* The wide revision has settled the header it will append under.
WideHeaderSettled == variant = "wide" /\ pc \in {"AwaitAppend", "Done"}

AddedColumns(n) == {i \in (Len(BaseHeader) + 1)..Len(sheetHeader) : sheetHeader[i] = n}

\* C5 as stated: in the wide layout a location name that is in none of the
\* existing header columns gets exactly one new column, after all existing
\* ones; the existing columns keep name and index; a name that is in some
\* existing header column gets no column.
C5_AnyExistingColumn ==
    WideHeaderSettled =>
        /\ IsPrefix(headerAsRead, sheetHeader)
        /\ \A i \in 1..Len(locations) :
             LET n == locations[i].name
             IN  IF n \in Range(headerAsRead)
                 THEN AddedColumns(n) = {}
                 ELSE Cardinality(AddedColumns(n)) = 1

\* C5 amended: the location columns of a header are those after its first
\* two.  In the wide layout a location name that is not among the existing
\* location columns gets exactly one new column, after all existing ones
\* (and after the Date, Hour columns an empty sheet first receives); the
\* existing columns keep name and index; a name that is among the existing
\* location columns gets no column; no other column is added.
C5_LocationColumns ==
    WideHeaderSettled =>
        /\ IsPrefix(headerAsRead, sheetHeader)
        /\ IsPrefix(BaseHeader, sheetHeader)
        /\ existingHeaders = sheetHeader
        /\ \A i \in 1..Len(locations) :
             LET n == locations[i].name
             IN  IF n \in CurrentLocationNames(BaseHeader)
                 THEN AddedColumns(n) = {}
                 ELSE Cardinality(AddedColumns(n)) = 1
        /\ \A i \in (Len(BaseHeader) + 1)..Len(sheetHeader) :
             \E j \in 1..Len(locations) : locations[j].name = sheetHeader[i]

\* A header that already has an Oslo column; the run is for Oslo and one
\* more location, and exactly one column is added.
C5_Witness ==
    /\ WideHeaderSettled
    /\ pc = "Done"
    /\ headerAsRead = <<"Date", "Hour", "Oslo">>
    /\ Len(locations) = 2
    /\ Len(sheetHeader) = 4
    /\ \E i \in 1..2 : locations[i].name = "Oslo"

----------------------------------------------------------------------------
(* C6 *)

\* C6 as stated, for successive runs of any revisions on a sheet that starts
\* empty: the header a run read is a prefix of the header the sheet has
\* from then on, and every data row of the sheet has each value under the
\* header column that names it, none beyond the last header column.
C6_AppendOnlyAligned ==
    /\ Settles("ok", "values.get") => IsPrefix(headerAsRead, sheetHeader)
    /\ \A i \in 1..Len(sheetRows) : Aligned(sheetRows[i], sheetHeader)

----------------------------------------------------------------------------
(* C7 *)

RECURSIVE SumOver(_, _)
\* The sum of the reported next_1_hours amounts of the entries at the
\* positions in I.
SumOver(ts, I) ==
    IF I = {} THEN 0
    ELSE LET i == CHOOSE j \in I : TRUE
             amount == ts[i].precipitation_amount
         IN  (IF amount = Missing THEN 0 ELSE amount) + SumOver(ts, I \ {i})

\* C7: for a series of n >= 1 entries the precipitation fetchWeather
\* computes is the sum of the next_1_hours amounts over the first
\* min(6, n) entries, an entry without the field counting 0.
C7_PrecipitationWindow ==
    pc = "Summed" =>
        LET ts == fw.nowcastTimeseries
        IN  fw.precipitationSum = SumOver(ts, {i \in 1..Len(ts) : i <= 6})

\* Seven entries, the seventh with rain, one of the first six without the
\* field, and rain in the window.
C7_Witness ==
    /\ pc = "Summed"
    /\ Len(fw.nowcastTimeseries) = 7
    /\ fw.nowcastTimeseries[7].precipitation_amount = 2
    /\ fw.nowcastTimeseries[2].precipitation_amount = Missing
    /\ fw.precipitationSum = 7

----------------------------------------------------------------------------
(* C8 *)

\* C8 as stated: whenever the cloud-cover request fails after the primary
\* request succeeded, the location still gets its reading, with its
\* temperature and precipitation and with cloudCover null, and the run goes
\* on to the pause before the next location.
C8_CloudCoverDegrades ==
    \A k \in 1..Len(trace) :
        (variant = "grouped" /\ trace[k].api = "locationforecast"
             /\ trace[k].ev \in {"status", "throws"}) =>
            /\ k < Len(trace)
            /\ trace[k + 1] = Request("timer", trace[k].loc)
            /\ \E j \in 1..Len(weatherData) :
                 /\ weatherData[j].location = trace[k].loc
                 /\ weatherData[j].temperature = Nowcast(trace[k].loc)[1].air_temperature
                 /\ weatherData[j].precipitation = PrecipitationSum(Nowcast(trace[k].loc))
                 /\ weatherData[j].cloudCover = Null

----------------------------------------------------------------------------
(* C9 *)

\* An error was raised at trace position k.
ErrorAt(k) == trace[k].ev = "throws" \/ PrimaryStatusAt(k)

\* C9: a run can only stop in Done or Failed, and stops there.  Done has
\* exit status 0 and is reached only if the load, every fetch and, unless
\* dry-run, the write succeeded; Failed has a non-zero exit status and is
\* the state right after any error.  No request is issued twice and none
\* is issued after an error.
C9_TerminalStates ==
    /\ pc \in Terminal <=> exitCode # -1
    /\ pc \in Terminal <=> ~ENABLED Next
    /\ pc = "Failed" => exitCode # 0
    /\ pc = "Done" =>
         /\ exitCode = 0
         /\ \A k \in 1..Len(trace) : ~ErrorAt(k)
         /\ Settles("ok", "loadLocations")
         /\ LoopDone /\ Len(weatherData) = Len(locations)
         /\ dryRun => SheetCalls = <<>>
         /\ ~dryRun => Settles("ok", "values.append") /\ sheetRows = rows
    /\ \A k \in 1..Len(trace) : ErrorAt(k) => pc = "Failed" /\ k = Len(trace)
    /\ \A j, k \in 1..Len(trace) :
         (j < k /\ trace[j].ev = "request" /\ trace[j] = trace[k]) =>
             /\ trace[j].api = "values.update"
             /\ Len(updates) = 2 /\ updates[1] # updates[2]

\* A run that failed at the append, after two fetches and a header update.
C9_Witness ==
    /\ pc = "Failed"
    /\ exitCode = 1
    /\ Len(weatherData) = 2
    /\ updates # <<>>
    /\ trace[Len(trace)] = Settled("throws", "values.append", "")

----------------------------------------------------------------------------
(* C10 *)

\* The request whose settlement ends fetchWeather.
LastApi(v) == IF v = "grouped" THEN "locationforecast" ELSE PrimaryApi(v)

FetchCompletedAt(k, n) ==
    /\ k >= 1
    /\ trace[k].api = LastApi(variant) /\ trace[k].loc = n
    /\ trace[k].ev \in {"ok", "status"}

\* C10: the load has settled before anything else is requested; every
\* request is settled before the next one is issued, so at most one weather
\* request is outstanding; the fetch of a location starts only after the
\* fetch of the location before it has completed and the pause after it has
\* elapsed; and a spreadsheet call is issued only after the fetch of every
\* location, the last included, has completed.
C10_Sequential ==
    /\ trace[1] = Request("loadLocations", "")
    /\ \A k \in 2..Len(trace) :
         trace[k].ev = "request" => (k > 2 /\ trace[2] = Settled("ok", "loadLocations", ""))
    /\ \A k \in 1..(Len(trace) - 1) :
         trace[k].ev = "request" =>
             /\ trace[k + 1].ev # "request"
             /\ trace[k + 1].api = trace[k].api
             /\ trace[k + 1].loc = trace[k].loc
    /\ \A k \in 1..Len(trace), j \in 2..Len(order) :
         (IsRequest(trace[k], {PrimaryApi(variant)}) /\ trace[k].loc = order[j].name) =>
             /\ k > 3
             /\ trace[k - 1] = Settled("ok", "timer", order[j - 1].name)
             /\ trace[k - 2] = Request("timer", order[j - 1].name)
             /\ FetchCompletedAt(k - 3, order[j - 1].name)
    /\ \A k \in 1..Len(trace) :
         IsRequest(trace[k], SheetApis) =>
             /\ Len(weatherData) = Len(locations)
             /\ \A j \in 1..Len(locations) :
                  \E i \in 1..(k - 1) : FetchCompletedAt(i, locations[j].name)

\* The header is being read after three locations were fetched.
C10_Witness ==
    /\ pc = "AwaitHeaderGet"
    /\ Len(locations) = 3
    /\ variant = "grouped"

----------------------------------------------------------------------------
(* C11: a failed append after the header was created *)

RequestsOf(api) == {k \in 1..Len(trace) : IsRequest(trace[k], {api})}

\* The run read an empty header row and its values.append was rejected.
AppendFailedOnNewHeader ==
    /\ Settles("ok", "values.get")
    /\ headerAsRead = <<>>
    /\ Settles("throws", "values.append")

\* C11: when a run that found the header row empty has written the header and
\* its values.append then fails, the run ends Failed with the rejection of the
\* append as its last event, the sheet keeps the header that run wrote (the
\* default header of the revision, in the wide revision followed by the columns
\* of the run's locations), the sheet holds no row of the run, the append was
\* requested once, and every values.update of the run carried a different
\* payload (one in the long revisions, at most two in the wide one).
C11_HeaderCommitted ==
    AppendFailedOnNewHeader =>
        /\ pc = "Failed"
        /\ exitCode = ExitFailure
        /\ trace[Len(trace)] = Settled("throws", "values.append", "")
        /\ updates # <<>>
        /\ updates[1] = DefaultHeader(variant)
        /\ sheetHeader = updates[Len(updates)]
        /\ IsPrefix(DefaultHeader(variant), sheetHeader)
        /\ sheetRows = <<>>
        /\ Cardinality(RequestsOf("values.append")) = 1
        /\ Cardinality(RequestsOf("values.update")) = Len(updates)
        /\ Len(updates) <= (IF variant = "wide" THEN 2 ELSE 1)
        /\ \A i, j \in 1..Len(updates) : i # j => updates[i] # updates[j]

\* A run with readings to write created the header and then lost its append.
C11_Witness ==
    /\ AppendFailedOnNewHeader
    /\ weatherData # <<>>
    /\ rows # <<>>
    /\ sheetHeader = DefaultHeader(variant) \o NewLocationNames(DefaultHeader(variant), locations)
    /\ pc = "Failed"

----------------------------------------------------------------------------
(* C12: the fetch order of the area-grouped collector *)

\* Position in the input list of the first location of area a.
FirstAppearance(a) ==
    CHOOSE i \in 1..Len(locations) :
        /\ AreaKey(locations[i]) = a
        /\ \A j \in 1..(i - 1) : AreaKey(locations[j]) # a

\* Reading r comes before reading s in area-by-area order: areas by first
\* appearance in the input, locations of one area by input position.
AreaByAreaBefore(r, s) ==
    IF r.area = s.area
    THEN InputIndex(r.location) < InputIndex(s.location)
    ELSE FirstAppearance(r.area) < FirstAppearance(s.area)

\* C12: in the area-grouped collector, for every location list, fetching
\* starts once the list is loaded, each reading carries its location's area
\* label or 'Other', any two readings stand in area-by-area order (areas by
\* first appearance in the input list, input order within an area), and a
\* finished loop has one reading per location.
C12_AreaGrouped ==
    (variant = "grouped" /\ Settles("ok", "loadLocations")) =>
        /\ locations # <<>> => FetchLog # <<>>
        /\ \A i \in 1..Len(weatherData) :
              \E k \in 1..Len(locations) :
                  /\ locations[k].name = weatherData[i].location
                  /\ weatherData[i].area = (IF locations[k].area = NoArea THEN "Other"
                                            ELSE locations[k].area)
        /\ \A i, j \in 1..Len(weatherData) :
              i < j => AreaByAreaBefore(weatherData[i], weatherData[j])
        /\ (LoopDone /\ FetchLog # <<>>) => Len(weatherData) = Len(locations)

====
